---- MODULE Spec2Model ----
(***************************************************************************)
(* A model of pdf_triage_main.py: the page content analyser                *)
(* (get_page_statistics), the raster selector and encoder                  *)
(* (extract_largest_image), the per-document driver                        *)
(* (extract_pdf_statistics) and the batch orchestrator (process_all_pdfs). *)
(*                                                                         *)
(* Three specifications share the module:                                  *)
(*   SpecStats  get_page_statistics applied to every bounded page drawing  *)
(*   SpecImage  extract_largest_image applied to every bounded directory   *)
(*   Spec       process_all_pdfs over a bounded batch of documents         *)
(***************************************************************************)
EXTENDS Integers, Sequences, FiniteSets, TLC

VARIABLES
    \* ---- get_page_statistics (SpecStats) ----
    st_pc,          \* "off" | "input" | "convert" | "done"
    st_page,        \* the page handed to get_page_statistics
    stats,          \* the dict `stats` of get_page_statistics
    \* ---- extract_largest_image (SpecImage) ----
    im_pc,          \* "off" | "scan" | "save" | "done"
    im_images,      \* page.get_images(full=True)
    im_format,      \* image_format
    im_codec,       \* how the image codec answers for the selected payload
    largest_img,    \* the local `largest_img` after the scan
    im_result,      \* files written / fallback entered / exception raised
    \* ---- process_all_pdfs and extract_pdf_statistics (Spec) ----
    pc,             \* position of process_all_pdfs
    image_format,   \* the -f argument
    pdf_files,      \* glob result: the documents 1..pdf_files, in discovery order
    doc,            \* index of the document of the current loop iteration
    total_pages,    \* len(pdf_document) of the open document
    page_num,       \* 1-based number of the next page of the open document
    stats_data,     \* rows of the open document (local to extract_pdf_statistics)
    all_stats,      \* rows collected by process_all_pdfs
    files,          \* files present in the output directory
    open_docs,      \* source documents opened by fitz.open and not closed by close()
    report,         \* NoReport, or the rows written to pdf_statistics.csv
    doc_log,        \* history: per document, the pages handed out by the iterator
    doc_status,     \* history: "pending" | "open" | "ok" | "failed" per document
    extract_calls   \* history: <<document, page number>> of every extract_largest_image call

statVars == <<st_pc, st_page, stats>>
imgVars  == <<im_pc, im_images, im_format, im_codec, largest_img, im_result>>
mainVars == <<pc, image_format, pdf_files, doc, total_pages, page_num, stats_data,
              all_stats, files, open_docs, report, doc_log, doc_status, extract_calls>>
vars     == <<statVars, imgVars, mainVars>>

-----------------------------------------------------------------------------
(* Bounds *)

MaxWeight == 4      \* paths plus drawing items of a page analysed under SpecStats
MaxImages == 3      \* length of an image directory under SpecImage
MaxSize   == 2      \* encoded byte length of an image payload
MaxDocs   == 2      \* documents discovered by glob
MaxRows   == 2      \* pages of a batch that get as far as a row

-----------------------------------------------------------------------------
(* Generic helpers *)

Range(s) == {s[i] : i \in 1..Len(s)}

RECURSIVE SeqsOfLen(_, _)
SeqsOfLen(S, n) ==
    IF n = 0 THEN {<<>>}
    ELSE {<<x>> \o t : x \in S, t \in SeqsOfLen(S, n - 1)}

SeqsUpTo(S, n) == UNION {SeqsOfLen(S, k) : k \in 0..n}

-----------------------------------------------------------------------------
(* Page drawings: what page.get_drawings() returns *)

\* item[0] of a drawing item; "qu" (quad) is a kind the analyser has no branch for
Kinds == {"l", "re", "c", "v", "y", "m", "qu"}

PyNone == [none |-> TRUE, comps |-> <<>>]
ColorTuple(t) == [none |-> FALSE, comps |-> t]

\* path["color"]: None, the empty tuple, or an RGB tuple
ColorValues == {PyNone, ColorTuple(<<>>), ColorTuple(<<1, 0, 0>>),
                ColorTuple(<<0, 1, 0>>), ColorTuple(<<0, 0, 1>>)}

\* Python truthiness of path["color"]
Truthy(c) == ~c.none /\ c.comps # <<>>

\* str(path["color"])
Str(c) == IF c.none THEN "None" ELSE ToString(c.comps)

\* a path dict: the keys it has, and the values under "items" and "color"
PathOf(keys, items, color) == [keys |-> keys, items |-> items, color |-> color]

\* paths carrying exactly k items: with both keys and any colour; with no "color" key;
\* and, for k = 0, with no "items" key (one coloured, one with neither key)
PathsWithItems(k) ==
    {PathOf({"items", "color"}, it, c) : it \in SeqsOfLen(Kinds, k), c \in ColorValues}
    \cup {PathOf({"items"}, it, PyNone) : it \in SeqsOfLen(Kinds, k)}
    \cup (IF k = 0
          THEN {PathOf({"color"}, <<>>, ColorTuple(<<1, 0, 0>>)), PathOf({}, <<>>, PyNone)}
          ELSE {})

\* the weight of a drawing: its paths plus their items
RECURSIVE Weight(_)
Weight(paths) ==
    IF paths = <<>> THEN 0
    ELSE 1 + Len(Head(paths).items) + Weight(Tail(paths))

-----------------------------------------------------------------------------
(* get_page_statistics *)

NewStats == [Point_Count |-> 0, Line_Count |-> 0, Polygon_Count |-> 0,
             Raster_Count |-> 0, Vector_Colors |-> <<>>]

\* CountItem with a catch-all last branch: every kind that is not a line, a move or
\* a rectangle counts as a polygon
CountItem_else_polygon(s, kind) ==
    IF kind = "l" THEN [s EXCEPT !.Line_Count = @ + 1]
    ELSE IF kind = "re" THEN [s EXCEPT !.Polygon_Count = @ + 1]
    ELSE IF kind = "m" THEN [s EXCEPT !.Point_Count = @ + 1]
    ELSE [s EXCEPT !.Polygon_Count = @ + 1]

\* one iteration of `for item in path["items"]`
CountItem(s, kind) ==
    IF kind = "l" THEN [s EXCEPT !.Line_Count = @ + 1]
    ELSE IF kind = "re" THEN [s EXCEPT !.Polygon_Count = @ + 1]
    ELSE IF kind = "c" \/ kind = "v" \/ kind = "y" THEN [s EXCEPT !.Polygon_Count = @ + 1]
    ELSE IF kind = "m" THEN [s EXCEPT !.Point_Count = @ + 1]
    ELSE s

RECURSIVE CountItems(_, _)
CountItems(s, items) ==
    IF items = <<>> THEN s
    ELSE CountItems(CountItem(s, Head(items)), Tail(items))

\* AddColor without the membership test
AddColor_no_dedup(s, path) ==
    IF "color" \in path.keys /\ Truthy(path.color)
    THEN [s EXCEPT !.Vector_Colors = Append(@, Str(path.color))]
    ELSE s

\* the colour part of one iteration of `for path in paths`
AddColor(s, path) ==
    IF "color" \in path.keys /\ Truthy(path.color)
    THEN LET color_str == Str(path.color)
         IN  IF color_str \notin Range(s.Vector_Colors)
             THEN [s EXCEPT !.Vector_Colors = Append(@, color_str)]
             ELSE s
    ELSE s

\* one iteration of `for path in paths`
ScanPath(s, path) ==
    AddColor(IF "items" \in path.keys THEN CountItems(s, path.items) ELSE s, path)

RECURSIVE ScanPaths(_, _)
ScanPaths(s, paths) ==
    IF paths = <<>> THEN s
    ELSE ScanPaths(ScanPath(s, Head(paths)), Tail(paths))

\* ", ".join(list) for a non-empty list
RECURSIVE Join(_)
Join(list) ==
    IF Len(list) = 1 THEN list[1]
    ELSE list[1] \o ", " \o Join(Tail(list))

\* the function up to and including the raster count: the colours are still a list
AnalysePage(page) ==
    [ScanPaths(NewStats, page.paths) EXCEPT !.Raster_Count = Len(page.images)]

\* the conversion of the colour list to the reported string
ConvertColors(s) ==
    [s EXCEPT !.Vector_Colors = IF @ # <<>> THEN Join(@) ELSE "None"]

get_page_statistics(page) == ConvertColors(AnalysePage(page))

-----------------------------------------------------------------------------
(* Names in the output directory *)

\* os.path.basename(pdf_path) of the d-th discovered document
FileName(d) == "doc" \o ToString(d) \o ".pdf"

\* os.path.splitext(os.path.basename(pdf_path))[0]
BaseFilename(d) == "doc" \o ToString(d)

\* f"{base_filename}_{page_num}_of_{total_pages}"
PageStem(base, n, total) == base \o "_" \o ToString(n) \o "_of_" \o ToString(total)

\* os.path.join(output_dir, name) keeps the name; a path is kept as (stem, ext) so that
\* os.path.splitext(path)[0] is its stem
PathName(path) == path.stem \o path.ext

-----------------------------------------------------------------------------
(* Image directories and the image codec *)

Formats == {"tiff", "png", "jpeg"}

\* format_extensions.get(image_format.lower(), '.tiff')
Ext(fmt) ==
    IF fmt = "tiff" THEN ".tiff"
    ELSE IF fmt = "png" THEN ".png"
    ELSE IF fmt = "jpeg" THEN ".jpg"
    ELSE ".tiff"

\* a directory entry: whether extract_image(xref) answers, and with how many bytes
Entries == {[resolves |-> FALSE, size |-> 0]}
           \cup {[resolves |-> TRUE, size |-> n] : n \in 0..MaxSize}

Directories == SeqsUpTo(Entries, MaxImages)

\* PIL modes, written as their band letters: img.split() has one band per letter
RGB  == <<"R", "G", "B">>
RGBA == <<"R", "G", "B", "A">>
LA   == <<"L", "A">>
Modes == {RGB, RGBA, LA, <<"L">>, <<"P">>, <<"C", "M", "Y", "K">>}

\* the codec's answers for one payload: Image.open succeeds, the mode it reports,
\* img.save in the requested format succeeds, the fallback TIFF save succeeds
Codecs == {c \in [decodes : BOOLEAN, mode : Modes, save_ok : BOOLEAN, tiff_ok : BOOLEAN] :
              ~c.decodes => (c.mode = RGB /\ ~c.save_ok /\ ~c.tiff_ok)}

\* bytes objects: None is xref 0; base_image["image"] of entry i is [xref |-> i, len |-> size]
NoImage == [xref |-> 0, len |-> 0]
ImageBytes(i, entry) == [xref |-> i, len |-> entry.size]
BytesTruthy(b) == b # NoImage /\ b.len > 0

\* files of the output directory
PathOf2(stem, ext) == [stem |-> stem, ext |-> ext]
FileOf(name, format, mode, via, xref) ==
    [name |-> name, format |-> format, mode |-> mode, via |-> via, xref |-> xref]
WriteFile(fs, f) == {g \in fs : g.name # f.name} \cup {f}
WriteFiles(fs, new) == {g \in fs : \A f \in new : g.name # f.name} \cup new

-----------------------------------------------------------------------------
(* extract_largest_image *)

\* ScanImage comparing with >= : of equal lengths the last one wins
ScanImage_ge(sel, i, entry) ==
    IF entry.resolves
    THEN LET image_bytes == ImageBytes(i, entry)
             img_size == image_bytes.len
         IN  IF img_size >= sel.max_size /\ img_size > 0
             THEN [max_size |-> img_size, largest_img |-> image_bytes]
             ELSE sel
    ELSE sel

\* one iteration of `for img_index, img in enumerate(page.get_images(full=True))`
ScanImage(sel, i, entry) ==
    IF entry.resolves
    THEN LET image_bytes == ImageBytes(i, entry)
             img_size == image_bytes.len
         IN  IF img_size > sel.max_size
             THEN [max_size |-> img_size, largest_img |-> image_bytes]
             ELSE sel
    ELSE sel     \* except: warning printed, the loop goes on

RECURSIVE ScanImages(_, _, _)
ScanImages(sel, images, i) ==
    IF i > Len(images) THEN sel
    ELSE ScanImages(ScanImage(sel, i, images[i]), images, i + 1)

SelectLargest(images) ==
    ScanImages([max_size |-> 0, largest_img |-> NoImage], images, 1).largest_img

\* the mode conversion of the jpeg branch; ok = FALSE is an exception
NormalizeJpeg(mode) ==
    IF mode \in {RGBA, LA}
    THEN IF \E k \in 1..Len(mode) : mode[k] = "A"
         THEN IF Len(mode) >= 4                       \* img.split()[3]
              THEN [ok |-> TRUE, mode |-> RGB, via |-> "white_alpha_mask"]
              ELSE [ok |-> FALSE, mode |-> mode, via |-> "IndexError"]
         ELSE [ok |-> TRUE, mode |-> RGB, via |-> "white_paste"]
    ELSE IF mode # RGB
    THEN [ok |-> TRUE, mode |-> RGB, via |-> "convert"]
    ELSE [ok |-> TRUE, mode |-> RGB, via |-> "as_is"]

\* the first try block; ok = FALSE is an exception caught by `except Exception as e`
SaveRequested(img, output_path, fmt, codec) ==
    IF ~codec.decodes THEN [ok |-> FALSE, files |-> {}]
    ELSE IF fmt = "jpeg"
    THEN LET n == NormalizeJpeg(codec.mode)
         IN  IF n.ok /\ codec.save_ok
             THEN [ok |-> TRUE,
                   files |-> {FileOf(PathName(output_path), "JPEG", n.mode, n.via, img.xref)}]
             ELSE [ok |-> FALSE, files |-> {}]
    ELSE IF fmt = "png"
    THEN IF codec.save_ok
         THEN [ok |-> TRUE,
               files |-> {FileOf(PathName(output_path), "PNG", codec.mode, "as_is", img.xref)}]
         ELSE [ok |-> FALSE, files |-> {}]
    ELSE IF codec.save_ok
         THEN [ok |-> TRUE,
               files |-> {FileOf(PathName(output_path), "TIFF", codec.mode, "as_is", img.xref)}]
         ELSE [ok |-> FALSE, files |-> {}]

\* TiffFallback without its own try: a failing fallback leaves the function
TiffFallback_raises(img, output_path, codec) ==
    LET tiff_path == PathOf2(output_path.stem, ".tiff")
    IN  IF codec.decodes /\ codec.tiff_ok
        THEN [raised |-> FALSE,
              files |-> {FileOf(PathName(tiff_path), "TIFF", codec.mode, "as_is", img.xref)}]
        ELSE [raised |-> TRUE, files |-> {}]

\* the except handler: the TIFF fallback inside its own try
TiffFallback(img, output_path, codec) ==
    LET tiff_path == PathOf2(output_path.stem, ".tiff")
    IN  IF codec.decodes /\ codec.tiff_ok
        THEN [raised |-> FALSE,
              files |-> {FileOf(PathName(tiff_path), "TIFF", codec.mode, "as_is", img.xref)}]
        ELSE [raised |-> FALSE, files |-> {}]     \* except Exception as e2

\* `if largest_img:` and what follows
SaveLargest(img, output_path, fmt, codec) ==
    IF BytesTruthy(img)
    THEN LET r == SaveRequested(img, output_path, fmt, codec)
         IN  IF r.ok
             THEN [raised |-> FALSE, fallback |-> FALSE, files |-> r.files]
             ELSE LET f == TiffFallback(img, output_path, codec)
                  IN  [raised |-> f.raised, fallback |-> TRUE, files |-> f.files]
    ELSE [raised |-> FALSE, fallback |-> FALSE, files |-> {}]

extract_largest_image(images, output_path, fmt, codec) ==
    SaveLargest(SelectLargest(images), output_path, fmt, codec)

-----------------------------------------------------------------------------
(* Values of the variables of a specification that is not running *)

StatsOff == st_pc = "off" /\ st_page = [paths |-> <<>>, images |-> <<>>] /\ stats = NewStats

ImageOff ==
    /\ im_pc = "off" /\ im_images = <<>> /\ im_format = "tiff"
    /\ im_codec = [decodes |-> FALSE, mode |-> RGB, save_ok |-> FALSE, tiff_ok |-> FALSE]
    /\ largest_img = NoImage
    /\ im_result = [raised |-> FALSE, fallback |-> FALSE, files |-> {}]

MainOff ==
    /\ pc = "off" /\ image_format = "tiff" /\ pdf_files = 0 /\ doc = 0
    /\ total_pages = 0 /\ page_num = 0 /\ stats_data = <<>> /\ all_stats = <<>>
    /\ files = {} /\ open_docs = {} /\ report = [written |-> FALSE, rows |-> <<>>]
    /\ doc_log = <<>> /\ doc_status = <<>> /\ extract_calls = {}

-----------------------------------------------------------------------------
(* SpecStats: get_page_statistics on every drawing of weight <= MaxWeight *)

\* the directory of the analysed page: the analyser reads nothing but its length
StatImages == {<<[resolves |-> TRUE, size |-> 1]>>}

InitStats ==
    /\ st_pc = "input"
    /\ st_page \in {[paths |-> <<>>, images |-> im] : im \in StatImages}
    /\ stats = NewStats
    /\ ImageOff /\ MainOff

\* line 78: page.get_drawings() may hold any drawing of weight <= MaxWeight; the
\* drawing handed to the analyser is built one path at a time
DrawPath ==
    /\ st_pc = "input"
    /\ \E k \in 0..(MaxWeight - Weight(st_page.paths) - 1) :
         \E p \in PathsWithItems(k) :
            st_page' = [st_page EXCEPT !.paths = Append(@, p)]
    /\ UNCHANGED <<st_pc, stats, imgVars, mainVars>>

\* lines 66-99: the path loop and the raster count
ScanPage ==
    /\ st_pc = "input"
    /\ stats' = AnalysePage(st_page)
    /\ st_pc' = "convert"
    /\ UNCHANGED <<st_page, imgVars, mainVars>>

\* lines 101-104: the colour list becomes a string, the dict is returned
ReturnStats ==
    /\ st_pc = "convert"
    /\ stats' = ConvertColors(stats)
    /\ st_pc' = "done"
    /\ UNCHANGED <<st_page, imgVars, mainVars>>

NextStats == DrawPath \/ ScanPage \/ ReturnStats

SpecStats == InitStats /\ [][NextStats]_vars

-----------------------------------------------------------------------------
(* SpecImage: extract_largest_image on every directory of length <= MaxImages *)

\* the output_path handed to extract_largest_image
ImOutputPath == PathOf2(PageStem("doc1", 1, 1) \o "_largest_image", Ext(im_format))

InitImage ==
    /\ im_pc = "scan"
    /\ im_images \in Directories
    /\ im_format \in Formats
    /\ im_codec \in Codecs
    /\ largest_img = NoImage
    /\ im_result = [raised |-> FALSE, fallback |-> FALSE, files |-> {}]
    /\ StatsOff /\ MainOff

\* lines 108-123: the scan of the image directory
ScanDirectory ==
    /\ im_pc = "scan"
    /\ largest_img' = SelectLargest(im_images)
    /\ im_pc' = "save"
    /\ UNCHANGED <<im_images, im_format, im_codec, im_result, statVars, mainVars>>

\* lines 125-166: the save in the requested format and the TIFF fallback
SaveImage ==
    /\ im_pc = "save"
    /\ im_result' = SaveLargest(largest_img, ImOutputPath, im_format, im_codec)
    /\ im_pc' = "done"
    /\ UNCHANGED <<im_images, im_format, im_codec, largest_img, statVars, mainVars>>

NextImage == ScanDirectory \/ SaveImage

SpecImage == InitImage /\ [][NextImage]_vars

-----------------------------------------------------------------------------
(* Spec: process_all_pdfs over at most MaxDocs documents and MaxRows rows *)

ColorA == ColorTuple(<<1, 0, 0>>)
ColorB == ColorTuple(<<0, 1, 0>>)

\* the drawings of the pages of a batch: between them they hold every item kind
MainDrawings ==
    <<  <<>>,
        <<PathOf({"items", "color"}, <<"m", "l", "re", "c">>, ColorA)>>,
        <<PathOf({"items", "color"}, <<"v", "y", "qu">>, ColorB),
          PathOf({"color"}, <<>>, PyNone)>>  >>

\* the pages of a batch: no image; one image that does not resolve; two images of
\* which the first does not resolve
MainPages ==
    { [paths |-> MainDrawings[2], images |-> <<>>],
      [paths |-> MainDrawings[1], images |-> <<[resolves |-> FALSE, size |-> 0]>>],
      [paths |-> MainDrawings[3], images |-> <<[resolves |-> FALSE, size |-> 0],
                                               [resolves |-> TRUE, size |-> 2]>>] }

\* the codec answers met in a batch
MainCodecs == {c \in Codecs : c.mode = RGB}

\* the log entry of a page that raised before it was analysed
UnreadPage == [paths |-> <<>>, images |-> <<>>]

NoResult == [raised |-> FALSE, fallback |-> FALSE, files |-> {}]

\* LargestImageStep testing `>= 0`: the extraction runs for every page
LargestImageStep_always(page_stats, images, base, n, total, fmt, codec) ==
    IF page_stats.Raster_Count >= 0
    THEN LET img_path == PathOf2(PageStem(base, n, total) \o "_largest_image", Ext(fmt))
         IN  [called |-> TRUE, field |-> PathName(img_path),
              result |-> extract_largest_image(images, img_path, fmt, codec)]
    ELSE [called |-> FALSE, field |-> "N/A", result |-> NoResult]

\* lines 50-57: the image step of a page and the value of "Largest Image File"
LargestImageStep(page_stats, images, base, n, total, fmt, codec) ==
    IF page_stats.Raster_Count > 0
    THEN LET img_path == PathOf2(PageStem(base, n, total) \o "_largest_image", Ext(fmt))
         IN  [called |-> TRUE, field |-> PathName(img_path),
              result |-> extract_largest_image(images, img_path, fmt, codec)]
    ELSE [called |-> FALSE, field |-> "N/A", result |-> NoResult]

\* lines 43-47, 55-57: the row of a page ("File Size (KB)" is left out: it is the
\* size the operating system reports for the split file)
BuildRow(page_stats, d, output_filename, n, total, field) ==
    [Point_Count |-> page_stats.Point_Count, Line_Count |-> page_stats.Line_Count,
     Polygon_Count |-> page_stats.Polygon_Count, Raster_Count |-> page_stats.Raster_Count,
     Vector_Colors |-> page_stats.Vector_Colors,
     Original_File |-> FileName(d), Output_File |-> output_filename,
     Page_Number |-> n, Total_Pages |-> total, Largest_Image_File |-> field]

\* RowsAfterError keeping the rows built before the failure
RowsAfterError_keeps(all, partial) == all \o partial

\* lines 187-188: what the except clause leaves in all_stats when a document fails
\* with `partial` rows already built
RowsAfterError(all, partial) == all

\* ShouldWriteReport testing the discovered files instead of the rows
ShouldWriteReport_files(rows, nfiles) == nfiles > 0

\* line 191: `if all_stats:`
ShouldWriteReport(rows, nfiles) == rows # <<>>

\* number of rows built so far in the documents 1..d
RECURSIVE RowsBuilt(_, _)
RowsBuilt(log, d) ==
    IF d = 0 THEN 0
    ELSE Cardinality({k \in 1..Len(log[d]) : log[d][k].outcome = "row"})
         + RowsBuilt(log, d - 1)

LogEntry(page, total, outcome, image) ==
    [page |-> page, total |-> total, outcome |-> outcome, image |-> image]

ImageOutcome(step) ==
    IF ~step.called THEN "not_called"
    ELSE IF step.result.files = {} THEN "nothing"
    ELSE IF step.result.fallback THEN "fallback"
    ELSE "requested"

Init ==
    /\ pc = "glob"
    /\ image_format \in Formats
    /\ pdf_files = 0 /\ doc = 0 /\ total_pages = 0 /\ page_num = 0
    /\ stats_data = <<>> /\ all_stats = <<>>
    /\ files = {} /\ open_docs = {}
    /\ report = [written |-> FALSE, rows |-> <<>>]
    /\ doc_log = <<>> /\ doc_status = <<>> /\ extract_calls = {}
    /\ StatsOff /\ ImageOff

\* lines 171-180: glob finds nothing and the function returns
DiscoverNone ==
    /\ pc = "glob"
    /\ pc' = "done"
    /\ UNCHANGED <<image_format, pdf_files, doc, total_pages, page_num, stats_data,
                   all_stats, files, open_docs, report, doc_log, doc_status,
                   extract_calls, statVars, imgVars>>

\* lines 171-182: glob finds n documents and the loop starts
Discover ==
    /\ pc = "glob"
    /\ \E n \in 1..MaxDocs :
          /\ pdf_files' = n
          /\ doc_log' = [d \in 1..n |-> <<>>]
          /\ doc_status' = [d \in 1..n |-> "pending"]
    /\ doc' = 1
    /\ pc' = "loop"
    /\ UNCHANGED <<image_format, total_pages, page_num, stats_data, all_stats, files,
                   open_docs, report, extract_calls, statVars, imgVars>>

\* lines 184-185, 15-28: fitz.open succeeds on a document of n pages
OpenDocument ==
    /\ pc = "loop" /\ doc <= pdf_files
    /\ \E n \in 0..(MaxRows - RowsBuilt(doc_log, pdf_files)) : total_pages' = n
    /\ page_num' = 1
    /\ stats_data' = <<>>
    /\ open_docs' = open_docs \cup {doc}
    /\ doc_status' = [doc_status EXCEPT ![doc] = "open"]
    /\ pc' = "pages"
    /\ UNCHANGED <<image_format, pdf_files, doc, all_stats, files, report, doc_log,
                   extract_calls, statVars, imgVars>>

\* lines 184-188, 15: fitz.open raises; the except clause logs and the loop goes on
OpenFails ==
    /\ pc = "loop" /\ doc <= pdf_files
    /\ doc_status' = [doc_status EXCEPT ![doc] = "failed"]
    /\ all_stats' = RowsAfterError(all_stats, <<>>)
    /\ doc' = doc + 1
    /\ UNCHANGED <<pc, image_format, pdf_files, total_pages, page_num, stats_data, files,
                   open_docs, report, doc_log, extract_calls, statVars, imgVars>>

\* lines 31-59: one iteration of the page loop that raises nothing before the image step
ProcessPage ==
    /\ pc = "pages" /\ page_num <= total_pages
    /\ \E page \in MainPages, codec \in MainCodecs :
         LET base == BaseFilename(doc)
             output_filename == PageStem(base, page_num, total_pages) \o ".pdf"
             page_file == FileOf(output_filename, "PDF", <<>>, "insert_pdf", page_num)
             page_stats == get_page_statistics(page)
             step == LargestImageStep(page_stats, page.images, base, page_num,
                                      total_pages, image_format, codec)
             row == BuildRow(page_stats, doc, output_filename, page_num, total_pages,
                             step.field)
         IN  /\ files' = WriteFiles(WriteFile(files, page_file), step.result.files)
             /\ extract_calls' = IF step.called THEN extract_calls \cup {<<doc, page_num>>}
                                 ELSE extract_calls
             /\ IF step.result.raised
                THEN \* the exception leaves extract_pdf_statistics: lines 187-188
                     /\ doc_log' = [doc_log EXCEPT ![doc] =
                                      Append(@, LogEntry(page, total_pages, "image_error", ImageOutcome(step)))]
                     /\ doc_status' = [doc_status EXCEPT ![doc] = "failed"]
                     /\ all_stats' = RowsAfterError(all_stats, stats_data)
                     /\ stats_data' = <<>>
                     /\ total_pages' = 0 /\ page_num' = 0
                     /\ doc' = doc + 1
                     /\ pc' = "loop"
                ELSE /\ doc_log' = [doc_log EXCEPT ![doc] =
                                      Append(@, LogEntry(page, total_pages, "row", ImageOutcome(step)))]
                     /\ stats_data' = Append(stats_data, row)
                     /\ page_num' = page_num + 1
                     /\ UNCHANGED <<doc_status, all_stats, total_pages, doc, pc>>
    /\ UNCHANGED <<image_format, pdf_files, open_docs, report, statVars, imgVars>>

\* lines 31-48, 184-188: the split ("split_error": lines 37-40) or the analysis
\* ("stats_error": lines 43-48) of a page raises; line 61 is not reached and no other
\* statement closes the document
PageFails ==
    /\ pc = "pages" /\ page_num <= total_pages
    /\ \E where \in {"split_error", "stats_error"} :
         LET output_filename == PageStem(BaseFilename(doc), page_num, total_pages) \o ".pdf"
             page_file == FileOf(output_filename, "PDF", <<>>, "insert_pdf", page_num)
         IN  /\ files' = IF where = "stats_error" THEN WriteFile(files, page_file) ELSE files
             /\ doc_log' = [doc_log EXCEPT ![doc] =
                              Append(@, LogEntry(UnreadPage, total_pages, where, "not_called"))]
    /\ doc_status' = [doc_status EXCEPT ![doc] = "failed"]
    /\ all_stats' = RowsAfterError(all_stats, stats_data)
    /\ stats_data' = <<>>
    /\ total_pages' = 0 /\ page_num' = 0
    /\ doc' = doc + 1
    /\ pc' = "loop"
    /\ UNCHANGED <<image_format, pdf_files, open_docs, report, extract_calls,
                   statVars, imgVars>>

\* lines 61-62, 186: the page loop is over, the document is closed and its rows
\* are added to all_stats
CloseDocument ==
    /\ pc = "pages" /\ page_num > total_pages
    /\ open_docs' = open_docs \ {doc}
    /\ all_stats' = all_stats \o stats_data
    /\ stats_data' = <<>>
    /\ doc_status' = [doc_status EXCEPT ![doc] = "ok"]
    /\ total_pages' = 0 /\ page_num' = 0
    /\ doc' = doc + 1
    /\ pc' = "loop"
    /\ UNCHANGED <<image_format, pdf_files, files, report, doc_log, extract_calls,
                   statVars, imgVars>>

\* lines 190-198: the report is written when rows were collected
WriteReport ==
    /\ pc = "loop" /\ doc > pdf_files
    /\ report' = IF ShouldWriteReport(all_stats, pdf_files)
                 THEN [written |-> TRUE, rows |-> all_stats]
                 ELSE report
    /\ pc' = "done"
    /\ UNCHANGED <<image_format, pdf_files, doc, total_pages, page_num, stats_data,
                   all_stats, files, open_docs, doc_log, doc_status, extract_calls,
                   statVars, imgVars>>

Next ==
    \/ DiscoverNone
    \/ Discover
    \/ OpenDocument
    \/ OpenFails
    \/ ProcessPage
    \/ PageFails
    \/ CloseDocument
    \/ WriteReport

Spec == Init /\ [][Next]_vars

-----------------------------------------------------------------------------
(* What the claims are measured against: counts and selections stated over the *)
(* inputs, without the loops of the code                                       *)

Min(S) == CHOOSE m \in S : \A o \in S : m <= o
Max(S) == CHOOSE m \in S : \A o \in S : m >= o

\* number of items of the kinds K in the paths that have items
RECURSIVE CountKinds(_, _)
CountKinds(paths, K) ==
    IF paths = <<>> THEN 0
    ELSE (IF "items" \in Head(paths).keys
          THEN Cardinality({i \in 1..Len(Head(paths).items) : Head(paths).items[i] \in K})
          ELSE 0) + CountKinds(Tail(paths), K)

RowMatchesPage(r, page) ==
    /\ r.Point_Count = CountKinds(page.paths, {"m"})
    /\ r.Line_Count = CountKinds(page.paths, {"l"})
    /\ r.Polygon_Count = CountKinds(page.paths, {"re"}) + CountKinds(page.paths, {"c", "v", "y"})
    /\ r.Raster_Count = Len(page.images)

RowKey(r) == <<r.Original_File, r.Page_Number, r.Total_Pages>>

\* the rows present at this moment: those collected and those of the open document
RowsNow == Range(all_stats) \cup Range(stats_data)

\* the rows of page k of document d in the sequence rows
RowsOf(rows, d, k) ==
    LET name == FileName(d)
    IN  {r \in Range(rows) : r.Page_Number = k /\ r.Original_File = name}

\* every name under which the image of page k of document d can be written
ImageNames(d, k) ==
    LET stem == PageStem(BaseFilename(d), k, doc_log[d][k].total) \o "_largest_image"
    IN  {stem \o e : e \in {".tiff", ".png", ".jpg"}}

\* the pages the page loop has started on, as <<document, page number>>
Logged == UNION {{<<d, k>> : k \in 1..Len(doc_log[d])} : d \in 1..pdf_files}

-----------------------------------------------------------------------------
(* C1 *)

RECURSIVE ExpectedKeys(_)
ExpectedKeys(d) ==
    IF d = 0 THEN <<>>
    ELSE ExpectedKeys(d - 1)
         \o (IF doc_status[d] = "ok"
             THEN [k \in 1..Len(doc_log[d]) |-> <<FileName(d), k, Len(doc_log[d])>>]
             ELSE <<>>)

\* C1: the collected rows are, in discovery order and then page order, the rows of
\* pages 1..N of exactly the documents whose extract_pdf_statistics returned; a
\* document that failed, at open or at any page, has no row, and the documents
\* after it are still processed.
C1_RowsOfSucceededDocuments ==
    /\ [i \in 1..Len(all_stats) |-> RowKey(all_stats[i])] = ExpectedKeys(pdf_files)
    /\ \A p \in Logged :
          doc_status[p[1]] = "ok" =>
             \A r \in RowsOf(all_stats, p[1], p[2]) :
                r.Raster_Count = Len(doc_log[p[1]][p[2]].page.images)
    /\ pc = "done" => \A d \in 1..pdf_files : doc_status[d] \in {"ok", "failed"}

\* a document failed after one of its pages had a row, and a later document's rows
\* were collected
C1_Witness ==
    /\ pc = "done"
    /\ \E d1, d2 \in 1..pdf_files :
          /\ d1 < d2
          /\ doc_status[d1] = "failed" /\ Len(doc_log[d1]) >= 2
          /\ doc_status[d2] = "ok" /\ Len(doc_log[d2]) >= 1
    /\ all_stats # <<>>

-----------------------------------------------------------------------------
(* C2 *)

\* C2: a page with Raster Count > 0 whose split and analysis raised nothing gets its
\* row whatever the image extraction did: extract_largest_image does not raise, the
\* row holds the page's point/line/polygon counts and Raster Count is the directory
\* length.
C2_ImageFailureKeepsRow ==
    \A p \in Logged :
       LET d == p[1]
           k == p[2]
           e == doc_log[d][k]
       IN  (e.page.images # <<>> /\ e.outcome \notin {"split_error", "stats_error"}) =>
              /\ e.outcome = "row"
              /\ doc_status[d] = "open" =>
                    /\ k <= Len(stats_data)
                    /\ stats_data[k].Page_Number = k
                    /\ RowMatchesPage(stats_data[k], e.page)
              /\ doc_status[d] = "ok" =>
                    /\ RowsOf(all_stats, d, k) # {}
                    /\ \A r \in RowsOf(all_stats, d, k) : RowMatchesPage(r, e.page)

\* the requested encode and the TIFF fallback both failed for a page whose row was
\* collected, and another collected page had no resolvable reference
C2_Witness ==
    /\ pc = "done"
    /\ \E p \in Logged :
          LET e == doc_log[p[1]][p[2]]
          IN  /\ doc_status[p[1]] = "ok"
              /\ e.image = "nothing"
              /\ \E i \in 1..Len(e.page.images) : e.page.images[i].resolves
    /\ \E p \in Logged :
          LET e == doc_log[p[1]][p[2]]
          IN  /\ doc_status[p[1]] = "ok"
              /\ e.image = "nothing"
              /\ \A i \in 1..Len(e.page.images) : ~e.page.images[i].resolves

-----------------------------------------------------------------------------
(* C3 *)

\* C3: every row whose Largest Image File is a filename names a file that was
\* written to the output directory.
C3_NamedImageWasWritten ==
    \A r \in RowsNow :
       r.Largest_Image_File # "N/A" => \E f \in files : f.name = r.Largest_Image_File

-----------------------------------------------------------------------------
(* C4 *)

\* C4: a page with an empty image directory has "N/A" in its row, never reaches
\* extract_largest_image and gets no image file; a page with Raster Count > 0 has a
\* field other than "N/A".
C4_NoRasterNoImage ==
    /\ \A p \in Logged :
          doc_log[p[1]][p[2]].page.images = <<>> =>
             /\ p \notin extract_calls
             /\ LET names == ImageNames(p[1], p[2])
                IN  \A f \in files : f.name \notin names
             /\ \A r \in RowsOf(all_stats, p[1], p[2]) \cup RowsOf(stats_data, p[1], p[2]) :
                   r.Largest_Image_File = "N/A"
    /\ \A r \in RowsNow :
          /\ r.Raster_Count = 0 => r.Largest_Image_File = "N/A"
          /\ r.Raster_Count > 0 => r.Largest_Image_File # "N/A"

\* a collected page without images next to a collected page whose image was written
C4_Witness ==
    /\ \E r \in Range(all_stats) : r.Raster_Count = 0 /\ r.Largest_Image_File = "N/A"
    /\ \E r \in Range(all_stats) :
          /\ r.Raster_Count > 0
          /\ \E f \in files : f.name = r.Largest_Image_File

-----------------------------------------------------------------------------
(* C5 *)

Resolvable == {i \in 1..Len(im_images) : im_images[i].resolves}
NonEmpty == {i \in Resolvable : im_images[i].size > 0}

\* the first entry of S, in directory order, whose length is the maximum over S
FirstLargest(S) ==
    LET m == Max({im_images[i].size : i \in S})
        i == Min({j \in S : im_images[j].size = m})
    IN  ImageBytes(i, im_images[i])

\* C5 as stated: the scan selects the first reference whose length is the maximum
\* over the resolvable references, and nothing when no reference resolves.
C5_FirstLargestResolvable ==
    im_pc \in {"save", "done"} =>
       largest_img = IF Resolvable = {} THEN NoImage ELSE FirstLargest(Resolvable)

\* C5 amended: the scan selects the first reference whose length is the maximum over
\* the resolvable references with a non-empty payload, and nothing when no reference
\* resolves to a non-empty payload; failing references are skipped wherever they stand.
C5_FirstLargestNonEmpty ==
    im_pc \in {"save", "done"} =>
       largest_img = IF NonEmpty = {} THEN NoImage ELSE FirstLargest(NonEmpty)

\* a failing reference first, then two images of equal length: the first of the two
C5_Witness ==
    /\ im_pc = "save"
    /\ Len(im_images) = 3
    /\ ~im_images[1].resolves
    /\ im_images[2].resolves /\ im_images[3].resolves
    /\ im_images[2].size = im_images[3].size /\ im_images[2].size > 0
    /\ largest_img.xref = 2

-----------------------------------------------------------------------------
(* C6 *)

\* C6: with format jpeg, when decode and encode succeed, every source mode ends as an
\* RGB JPEG at the requested path without the TIFF fallback: RGBA and LA composited on
\* white through the alpha mask, RGB as it is, any other mode converted.
C6_JpegNeverFallsBack ==
    (/\ im_pc = "done" /\ im_format = "jpeg" /\ BytesTruthy(largest_img)
     /\ im_codec.decodes /\ im_codec.save_ok) =>
       /\ ~im_result.fallback
       /\ im_result.files =
             {FileOf(PathName(ImOutputPath), "JPEG", RGB,
                     IF im_codec.mode \in {RGBA, LA} THEN "white_alpha_mask"
                     ELSE IF im_codec.mode = RGB THEN "as_is" ELSE "convert",
                     largest_img.xref)}

-----------------------------------------------------------------------------
(* C7 *)

\* C7: pdf_statistics.csv is written if and only if a row was collected, and then it
\* holds the collected rows; with no document, or with documents that all failed or
\* had no page, nothing is written and the function returns.
C7_ReportIffRows ==
    /\ pc # "done" => ~report.written
    /\ pc = "done" =>
          /\ report.written <=> all_stats # <<>>
          /\ report.written => report.rows = all_stats

\* documents were discovered, every one failed, the function returned without a report
C7_Witness ==
    /\ pc = "done"
    /\ pdf_files >= 2
    /\ \A d \in 1..pdf_files : doc_status[d] = "failed"
    /\ \E d \in 1..pdf_files : Len(doc_log[d]) >= 2
    /\ ~report.written

-----------------------------------------------------------------------------
(* C8 *)

Colored ==
    {i \in 1..Len(st_page.paths) :
        "color" \in st_page.paths[i].keys /\ Truthy(st_page.paths[i].color)}

FirstAt(c) == Min({i \in Colored : Str(st_page.paths[i].color) = c})

RECURSIVE OrderByFirst(_)
OrderByFirst(S) ==
    IF S = {} THEN <<>>
    ELSE LET c == CHOOSE x \in S : \A o \in S : FirstAt(x) <= FirstAt(o)
         IN  <<c>> \o OrderByFirst(S \ {c})

\* C8: the colour list holds each distinct non-empty colour string once, in the order
\* of first occurrence; paths without a colour or with an empty one add nothing; the
\* reported value is "None" when no path is coloured.
C8_ColorsFirstSeenOnce ==
    LET expected == OrderByFirst({Str(st_page.paths[i].color) : i \in Colored})
    IN  /\ st_pc = "convert" => stats.Vector_Colors = expected
        /\ st_pc = "done" =>
              stats.Vector_Colors = IF Colored = {} THEN "None" ELSE Join(expected)

\* colours [A, B, A, C] gave [A, B, C]
C8_Witness ==
    /\ st_pc = "convert"
    /\ Len(st_page.paths) = 4
    /\ Colored = 1..4
    /\ st_page.paths[1].color = st_page.paths[3].color
    /\ Cardinality({st_page.paths[i].color : i \in 1..4}) = 3
    /\ stats.Vector_Colors = <<Str(st_page.paths[1].color), Str(st_page.paths[2].color),
                               Str(st_page.paths[4].color)>>

-----------------------------------------------------------------------------
(* C9 *)

\* C9: the counts of every row are those of its own page's instruction list: moves,
\* lines, rectangles plus curves, other kinds ignored; nothing is carried over from
\* the pages or documents processed before.
C9_CountsOfOwnPage ==
    \A p \in Logged :
       LET d == p[1]
           k == p[2]
           e == doc_log[d][k]
       IN  e.outcome = "row" =>
              /\ doc_status[d] = "open" => RowMatchesPage(stats_data[k], e.page)
              /\ doc_status[d] = "ok" =>
                    \A r \in RowsOf(all_stats, d, k) : RowMatchesPage(r, e.page)

\* rows of two documents, the later page with fewer points than the one before it
\* and an unknown item kind in its drawing
C9_Witness ==
    \E i, j \in 1..Len(all_stats) :
       /\ i < j
       /\ all_stats[i].Original_File # all_stats[j].Original_File
       /\ all_stats[i].Point_Count > all_stats[j].Point_Count
       /\ all_stats[i].Line_Count > 0
       /\ all_stats[j].Polygon_Count = 2

-----------------------------------------------------------------------------
(* C10 *)

\* C10: a document is closed before the loop starts on the next one and before the
\* run ends, on every path; two source documents are never open together.
C10_ClosedBeforeNext ==
    /\ Cardinality(open_docs) <= 1
    /\ pc \in {"loop", "done"} => open_docs = {}

====
